---------------------------- MODULE Spec2Model ----------------------------
(***************************************************************************)
(* Model of the two back ends of rowannie/track.                           *)
(*                                                                         *)
(*   - the price tracker of src/db.js (lines 97-522): items with a price   *)
(*     and a price history, notifications, and the scrape handlers, whose  *)
(*     awaits let two requests interleave;                                 *)
(*   - the in-memory shop API of src/server.js (lines 206-855): products,  *)
(*     orders, dashboardMetrics and GET /api/dashboard.                    *)
(*                                                                         *)
(* JavaScript values are tagged records (k, n, s): null, undefined, a      *)
(* number, NaN or a string.  Money is counted in whole units, so every     *)
(* number of the model is an integer.  A notification's createdAt is its   *)
(* rank in creation order; the other timestamps (updatedAt, lastScraped,   *)
(* lastUpdated) and free-text fields that no handler reads back            *)
(* (description, customerName, trackingNumber, shippingAddress) are left   *)
(* out of the records.                                                     *)
(***************************************************************************)
EXTENDS Integers, Sequences, FiniteSets, TLC

VARIABLES
    items,          \* db.js: the Item documents ever created, in creation order
    removed,        \* db.js: the ids of the documents deleted from the Item collection
    notifications,  \* db.js: the Notification collection, in creation order
    reqs,           \* db.js: the scrape requests in flight, one slot each
    resp,           \* db.js: the status the last step answered with (0: it sent no response)
    ended,          \* db.js: the scrape request that the last step ended, if any
    products,       \* server.js: const products = []
    variants,       \* server.js: const variants = []
    objs,           \* server.js: every order object ever allocated, by allocation
    orders,         \* server.js: const orders = [] (references into objs)
    metrics,        \* server.js: const dashboardMetrics = {...}
    now,            \* server.js: the value Date.now() last returned
    reply,          \* server.js: the last response sent
    placed,         \* server.js: req.body of the order request the last step accepted
    nav             \* part_001: the call of KmonstarScraper.navigateTo made last

vars == <<items, removed, notifications, reqs, resp, ended, products, variants, objs, orders, metrics, now, reply, placed, nav>>

itemVars == <<items, removed, notifications, reqs, resp, ended>>
shopVars == <<products, variants, objs, orders, metrics, now, reply, placed>>
scraperVars == <<nav>>

-----------------------------------------------------------------------------
(* Bounds of the model.                                                    *)

MaxItems == 2
MaxHistory == 3
MaxRequests == 2
MaxNotifications == 2

-----------------------------------------------------------------------------
(* JavaScript values.                                                      *)

Null == [k |-> "null", n |-> 0, s |-> ""]
Undefined == [k |-> "undef", n |-> 0, s |-> ""]
NaN == [k |-> "nan", n |-> 0, s |-> ""]
Num(i) == [k |-> "num", n |-> i, s |-> ""]
Str(x) == [k |-> "str", n |-> 0, s |-> x]

IsNum(v) == v.k = "num"

\* ToBoolean: null, undefined, NaN, 0 and "" are falsy.
Truthy(v) ==
    CASE v.k = "num" -> v.n # 0
      [] v.k = "str" -> v.s # ""
      [] OTHER -> FALSE

Abs(i) == IF i < 0 THEN -i ELSE i

-----------------------------------------------------------------------------
(* The price tracker (src/db.js).                                          *)

\* What scrapeWebsite can hand back as price: extractPrice's parseFloat of a
\* "$<digits>" match (0 included), or null (no match, or the catch's sentinel).
ScrapedPrices == {Null, Num(0), Num(100), Num(101), Num(102)}

ReqIds == 1..MaxRequests

\* A mongoose document held by a handler: the fields read from the store, plus
\* what save() will send (the entries pushed to priceHistory, and whether
\* price was assigned).
NoDoc == [id |-> 0, price |-> Null, priceHistory |-> <<>>, pushed |-> <<>>, dirty |-> FALSE]

Load(id) ==
    [id |-> id, price |-> items[id].price, priceHistory |-> items[id].priceHistory,
     pushed |-> <<>>, dirty |-> FALSE]

\* A notification: message is kept as the two prices it embeds (from, to),
\* createdAt as the document's rank in creation order.
NoNote == [itemId |-> 0, type |-> "none", from |-> Null, to |-> Null,
           threshold |-> Null, isRead |-> FALSE, createdAt |-> 0]

\* A request slot.  prev, obs, note, fired and div0 record what the handler
\* did with the current document: the item.price it compared against, the
\* price scrapeWebsite returned, the notification it asked for, whether that
\* notification was stored, and whether the percentage divided by zero.
\* For scrape-all, found is what Item.find() returned (as ids), todo the
\* documents the loop has yet to reach, and results the ids pushed to
\* results, each with status 'success'.
Idle == [kind |-> "none", pc |-> "idle", doc |-> NoDoc, todo |-> <<>>,
         prev |-> Null, obs |-> Null, note |-> NoNote, fired |-> FALSE,
         div0 |-> FALSE, found |-> <<>>, results |-> <<>>]

\* No scrape request ended in the step.
NoEnd == [kind |-> "none", cause |-> "none", id |-> 0, prev |-> Null, obs |-> Null,
          note |-> NoNote, fired |-> FALSE, saved |-> FALSE,
          found |-> <<>>, results |-> <<>>]

\* Request q ended with its current document: by the response of line 366
\* (402) after the save ("ok"), or in the catch of line 370 (404) because
\* Notification.create ("notification") or item.save ("save") rejected.
End(q, cause) ==
    [kind |-> q.kind, cause |-> cause, id |-> q.doc.id, prev |-> q.prev,
     obs |-> q.obs, note |-> q.note, fired |-> q.fired, saved |-> cause = "ok",
     found |-> q.found,
     results |-> IF q.kind = "scrapeAll" /\ cause = "ok"
                 THEN Append(q.results, q.doc.id) ELSE q.results]

\* percentChange > 1 of lines 207-211, for currentPrice and item.price as
\* numbers (null counts as 0 in arithmetic).  A division by 0 gives Infinity
\* (> 1) when the difference is not 0, and NaN (not > 1) when it is.
PercentOver1(prev, cur) ==
    IF prev = 0 THEN cur # prev ELSE Abs(cur - prev) * 100 > prev

\* Line 205 left out.
GuardNever(itemPrice, currentPrice) == FALSE

\* The guard of line 205 without its second half.
GuardMissingStoredPrice(itemPrice, currentPrice) == ~Truthy(currentPrice)

\* Line 205: if (!currentPrice || !item.price) return;
Guard(itemPrice, currentPrice) == ~Truthy(currentPrice) \/ ~Truthy(itemPrice)

\* checkPriceChanges up to its await: whether Notification.create is called,
\* with what, and whether the percentage was computed by dividing by zero.
checkPriceChanges(item, currentPrice) ==
    IF Guard(item.price, currentPrice)
    THEN [create |-> FALSE, note |-> NoNote, div0 |-> FALSE]
    ELSE LET prev == item.price.n
             cur == currentPrice.n
             priceDifference == cur - prev
             notificationType ==
                 IF priceDifference < 0 THEN "price_drop" ELSE "price_increase"
         IN  [create |-> PercentOver1(prev, cur),
              note |-> [itemId |-> item.id, type |-> notificationType,
                        from |-> item.price, to |-> currentPrice,
                        threshold |-> item.price, isRead |-> FALSE,
                        createdAt |-> 0],
              div0 |-> prev = 0]

\* Lines 359-360 with the assignment of item.price left out.
PushOnly(doc, price) ==
    [doc EXCEPT !.priceHistory = Append(@, price), !.pushed = Append(@, price)]

\* Lines 359-360 (and 390-391): item.priceHistory.push({price}); item.price = price
PushPrice(doc, price) ==
    [doc EXCEPT !.priceHistory = Append(@, price), !.pushed = Append(@, price),
                !.price = price, !.dirty = TRUE]

\* item.save() of a loaded document: mongoose sends the modified paths, a
\* $push of the new priceHistory entries and a $set of price and of
\* lastScraped (assigned at line 363 or 393 before every save), in one
\* update.  lastScraped is kept as who wrote it last.
SaveDoc(doc) ==
    [items EXCEPT ![doc.id] =
        [@ EXCEPT !.priceHistory = @ \o doc.pushed,
                  !.price = IF doc.dirty THEN doc.price ELSE @,
                  !.lastScraped = "scrape"]]

\* The ids of the documents in the Item collection.
Present == {i \in 1..Len(items) : i \notin removed}

\* Item.find(): the documents of the collection, in creation order.
FindAll == SelectSeq([i \in 1..Len(items) |-> i], LAMBDA i : i \notin removed)

\* POST /api/items: 400 without name or url; else scrape, build and save.
CreateItem(fieldsOk, scraped, saveOk) ==
    /\ IF fieldsOk /\ saveOk
       THEN items' = Append(items,
                [price |-> scraped,
                 priceHistory |-> IF Truthy(scraped) THEN <<scraped>> ELSE <<>>,
                 lastScraped |-> "creation"])
       ELSE items' = items
    /\ resp' = IF ~fieldsOk THEN 400 ELSE IF saveOk THEN 201 ELSE 500
    /\ ended' = NoEnd
    /\ UNCHANGED <<removed, notifications, reqs>>
    /\ UNCHANGED <<shopVars, scraperVars>>

\* PUT /api/items/:id: findByIdAndUpdate of name, url, category and updatedAt,
\* none of which the model keeps; 404 for an unknown id.
UpdateItem(id) ==
    /\ resp' = IF id \in Present THEN 200 ELSE 404
    /\ ended' = NoEnd
    /\ UNCHANGED <<items, removed, notifications, reqs>>
    /\ UNCHANGED <<shopVars, scraperVars>>

\* POST /api/items/:id/scrape, up to the await of scrapeWebsite: findById
\* fails (500), finds nothing (404) or loads the document.
ScrapeBegin(r, id, dbOk) ==
    /\ reqs[r].pc = "idle"
    /\ IF ~dbOk
       THEN /\ reqs' = [reqs EXCEPT ![r] = Idle]
            /\ resp' = 500
            /\ ended' = [NoEnd EXCEPT !.kind = "scrape", !.cause = "find"]
       ELSE IF id \notin Present
       THEN /\ reqs' = [reqs EXCEPT ![r] = Idle]
            /\ resp' = 404
            /\ ended' = [NoEnd EXCEPT !.kind = "scrape", !.cause = "missing"]
       ELSE /\ reqs' = [reqs EXCEPT ![r] =
                    [Idle EXCEPT !.kind = "scrape", !.pc = "fetch", !.doc = Load(id)]]
            /\ resp' = 0
            /\ ended' = NoEnd
    /\ UNCHANGED <<items, removed, notifications>>
    /\ UNCHANGED <<shopVars, scraperVars>>

\* POST /api/scrape-all, up to the first await of scrapeWebsite: Item.find()
\* loads every item; an empty collection answers at once.
ScrapeAllBegin(r, dbOk) ==
    /\ reqs[r].pc = "idle"
    /\ IF ~dbOk
       THEN /\ reqs' = [reqs EXCEPT ![r] = Idle]
            /\ resp' = 500
            /\ ended' = [NoEnd EXCEPT !.kind = "scrapeAll", !.cause = "find"]
       ELSE IF FindAll = <<>>
       THEN /\ reqs' = [reqs EXCEPT ![r] = Idle]
            /\ resp' = 200
            /\ ended' = [NoEnd EXCEPT !.kind = "scrapeAll", !.cause = "ok"]
       ELSE /\ reqs' = [reqs EXCEPT ![r] =
                    [Idle EXCEPT !.kind = "scrapeAll", !.pc = "fetch",
                                 !.doc = Load(FindAll[1]), !.found = FindAll,
                                 !.todo = [i \in 1..(Len(FindAll) - 1) |->
                                              Load(FindAll[i + 1])]]]
            /\ resp' = 0
            /\ ended' = NoEnd
    /\ UNCHANGED <<items, removed, notifications>>
    /\ UNCHANGED <<shopVars, scraperVars>>

\* scrapeWebsite as a function that lets a failed fetch escape: the handler's
\* catch answers 500.
FetchedThrowing(r, scraped) ==
    /\ reqs[r].pc = "fetch"
    /\ LET q == reqs[r]
           c == checkPriceChanges(q.doc, scraped)
       IN  /\ reqs' = [reqs EXCEPT ![r] =
                  IF scraped = Null
                  THEN Idle
                  ELSE IF ~Truthy(scraped)
                  THEN [q EXCEPT !.pc = "save", !.prev = q.doc.price, !.obs = scraped]
                  ELSE IF c.create
                  THEN [q EXCEPT !.pc = "notify", !.prev = q.doc.price, !.obs = scraped,
                                 !.note = c.note, !.div0 = c.div0]
                  ELSE [q EXCEPT !.pc = "save", !.prev = q.doc.price, !.obs = scraped,
                                 !.div0 = c.div0, !.doc = PushPrice(q.doc, scraped)]]
           /\ resp' = IF scraped = Null THEN 500 ELSE 0
           /\ ended' = IF scraped = Null
                       THEN [End(q, "fetch") EXCEPT !.prev = q.doc.price]
                       ELSE NoEnd
    /\ UNCHANGED <<items, removed, notifications>>
    /\ UNCHANGED <<shopVars, scraperVars>>

\* scrapeWebsite has returned `scraped`: lines 354-361 (388-392) run up to the
\* next await, which is Notification.create when the change qualifies and
\* item.save() otherwise.
Fetched(r, scraped) ==
    /\ reqs[r].pc = "fetch"
    /\ LET q == reqs[r]
           c == checkPriceChanges(q.doc, scraped)
       IN  reqs' = [reqs EXCEPT ![r] =
               IF ~Truthy(scraped)
               THEN [q EXCEPT !.pc = "save", !.prev = q.doc.price, !.obs = scraped]
               ELSE IF c.create
               THEN [q EXCEPT !.pc = "notify", !.prev = q.doc.price, !.obs = scraped,
                              !.note = c.note, !.div0 = c.div0]
               ELSE [q EXCEPT !.pc = "save", !.prev = q.doc.price, !.obs = scraped,
                              !.div0 = c.div0, !.doc = PushPrice(q.doc, scraped)]]
    /\ resp' = 0
    /\ ended' = NoEnd
    /\ UNCHANGED <<items, removed, notifications>>
    /\ UNCHANGED <<shopVars, scraperVars>>

\* Notification.create has settled, with a rejection that is caught and
\* dropped inside checkPriceChanges: the handler goes on to lines 359-364.
NotificationWrittenSwallowed(r, ok) ==
    /\ reqs[r].pc = "notify"
    /\ notifications' =
          IF ok THEN Append(notifications,
                        [reqs[r].note EXCEPT !.createdAt = Len(notifications) + 1])
          ELSE notifications
    /\ reqs' = [reqs EXCEPT ![r] =
            [@ EXCEPT !.pc = "save", !.fired = ok, !.doc = PushPrice(@, reqs[r].obs)]]
    /\ resp' = 0
    /\ ended' = NoEnd
    /\ UNCHANGED <<items, removed>>
    /\ UNCHANGED <<shopVars, scraperVars>>

\* Notification.create has settled: stored, and the handler goes on to lines
\* 359-364, or rejected, and the handler's catch answers 500.
NotificationWritten(r, ok) ==
    /\ reqs[r].pc = "notify"
    /\ IF ok
       THEN /\ notifications' = Append(notifications,
                    [reqs[r].note EXCEPT !.createdAt = Len(notifications) + 1])
            /\ reqs' = [reqs EXCEPT ![r] =
                    [@ EXCEPT !.pc = "save", !.fired = TRUE,
                              !.doc = PushPrice(@, reqs[r].obs)]]
            /\ resp' = 0
            /\ ended' = NoEnd
       ELSE /\ notifications' = notifications
            /\ reqs' = [reqs EXCEPT ![r] = Idle]
            /\ resp' = 500
            /\ ended' = End(reqs[r], "notification")
    /\ UNCHANGED <<items, removed>>
    /\ UNCHANGED <<shopVars, scraperVars>>

\* Lines 385-402 with the response sent from inside the loop, after the
\* first item's save.
SavedAnsweringEarly(r, ok) ==
    /\ reqs[r].pc = "save"
    /\ IF ok /\ reqs[r].doc.id \in Present
       THEN /\ items' = SaveDoc(reqs[r].doc)
            /\ reqs' = [reqs EXCEPT ![r] = Idle]
            /\ resp' = 200
            /\ ended' = End(reqs[r], "ok")
       ELSE /\ items' = items
            /\ reqs' = [reqs EXCEPT ![r] = Idle]
            /\ resp' = 500
            /\ ended' = End(reqs[r], "save")
    /\ UNCHANGED <<removed, notifications>>
    /\ UNCHANGED <<shopVars, scraperVars>>

\* item.save() has settled: the store is updated and the handler answers 200
\* (scrape-all: goes on to the next item), or the catch answers 500.  The
\* save of a document that was deleted meanwhile matches nothing and rejects.
Saved(r, ok) ==
    /\ reqs[r].pc = "save"
    /\ IF ok /\ reqs[r].doc.id \in Present
       THEN /\ items' = SaveDoc(reqs[r].doc)
            /\ IF reqs[r].todo = <<>>
               THEN /\ reqs' = [reqs EXCEPT ![r] = Idle]
                    /\ resp' = 200
                    /\ ended' = End(reqs[r], "ok")
               ELSE /\ reqs' = [reqs EXCEPT ![r] =
                            [Idle EXCEPT !.kind = "scrapeAll", !.pc = "fetch",
                                         !.doc = Head(reqs[r].todo),
                                         !.todo = Tail(reqs[r].todo),
                                         !.found = reqs[r].found,
                                         !.results = Append(reqs[r].results,
                                                            reqs[r].doc.id)]]
                    /\ resp' = 0
                    /\ ended' = NoEnd
       ELSE /\ items' = items
            /\ reqs' = [reqs EXCEPT ![r] = Idle]
            /\ resp' = 500
            /\ ended' = End(reqs[r], "save")
    /\ UNCHANGED <<removed, notifications>>
    /\ UNCHANGED <<shopVars, scraperVars>>

\* The update of line 436 with a second field in it.
ReadPatchWithType(note) == [note EXCEPT !.isRead = TRUE, !.type = "read"]

\* The update document of line 436: { isRead: true }
ReadPatch(note) == [note EXCEPT !.isRead = TRUE]

\* PATCH /api/notifications/:id/read: findByIdAndUpdate fails (500), finds
\* nothing (404) or applies the update.
MarkRead(n, dbOk) ==
    /\ notifications' =
          IF dbOk /\ n \in 1..Len(notifications)
          THEN [notifications EXCEPT ![n] = ReadPatch(@)]
          ELSE notifications
    /\ resp' = IF ~dbOk THEN 500 ELSE IF n \in 1..Len(notifications) THEN 200 ELSE 404
    /\ ended' = NoEnd
    /\ UNCHANGED <<items, removed, reqs>>
    /\ UNCHANGED <<shopVars, scraperVars>>

\* Lines 330-334 with a cascade to the notifications of the item.
DeleteItemCascading(id, dbOk) ==
    /\ removed' = IF dbOk /\ id \in Present THEN removed \cup {id} ELSE removed
    /\ notifications' =
          IF dbOk /\ id \in Present
          THEN SelectSeq(notifications, LAMBDA n : n.itemId # id)
          ELSE notifications
    /\ resp' = IF ~dbOk THEN 500 ELSE IF id \in Present THEN 200 ELSE 404
    /\ ended' = NoEnd
    /\ UNCHANGED <<items, reqs>>
    /\ UNCHANGED <<shopVars, scraperVars>>

\* DELETE /api/items/:id: findByIdAndDelete fails (500), finds nothing (404)
\* or removes the document.
DeleteItem(id, dbOk) ==
    /\ removed' = IF dbOk /\ id \in Present THEN removed \cup {id} ELSE removed
    /\ resp' = IF ~dbOk THEN 500 ELSE IF id \in Present THEN 200 ELSE 404
    /\ ended' = NoEnd
    /\ UNCHANGED <<items, notifications, reqs>>
    /\ UNCHANGED <<shopVars, scraperVars>>

-----------------------------------------------------------------------------
(* The shop API (src/server.js, from line 206).                            *)

\* Line 551: if (dashboardMetrics.recentOrders.length > 10)
RecentCapacity == 10

\* Line 726: .slice(0, 5)
TopCount == 5

\* The status keys of lines 710-716 (and the comment of line 540).
Statuses == {"pending", "processing", "shipped", "delivered", "cancelled"}

\* parseFloat and parseInt of a decimal string: the number its longest
\* numeric prefix reads as, NaN when it has none.  The strings the requests
\* of the model carry are listed.
StringPrefixNumber(x) ==
    CASE x = "0" -> Num(0)
      [] x = "2" -> Num(2)
      [] x = "2x" -> Num(2)
      [] OTHER -> NaN

\* ToNumber of a string: the whole string must read as a number; "" is 0.
StringToNumber(x) ==
    CASE x = "" -> Num(0)
      [] x = "0" -> Num(0)
      [] x = "2" -> Num(2)
      [] OTHER -> NaN

\* parseFloat(v): v is turned into a string first, so null and undefined
\* give NaN.  Every number of the model is an integer.
parseFloat(v) ==
    CASE v.k = "num" -> v
      [] v.k = "str" -> StringPrefixNumber(v.s)
      [] OTHER -> NaN

parseInt(v) ==
    CASE v.k = "num" -> v
      [] v.k = "str" -> StringPrefixNumber(v.s)
      [] OTHER -> NaN

\* ToNumber, as applied to the operands of * and -.
ToNumber(v) ==
    CASE v.k = "num" -> v
      [] v.k = "str" -> StringToNumber(v.s)
      [] v.k = "null" -> Num(0)
      [] OTHER -> NaN

\* a + b, a - b and a * b on numbers: NaN when either operand is NaN.
JsAdd(a, b) == IF IsNum(a) /\ IsNum(b) THEN Num(a.n + b.n) ELSE NaN
JsSub(a, b) == IF IsNum(a) /\ IsNum(b) THEN Num(a.n - b.n) ELSE NaN
JsMul(a, b) == IF IsNum(a) /\ IsNum(b) THEN Num(a.n * b.n) ELSE NaN

\* x.toFixed(2): a decimal string with two decimals, kept as its count of
\* hundredths; "NaN" for NaN.
Fixed2(hundredths) == [k |-> "dec2", n |-> hundredths, s |-> ""]
toFixed2(x) == IF IsNum(x) THEN Fixed2(100 * x.n) ELSE Str("NaN")

\* (x / c).toFixed(2) for a count c > 0: rounded to the nearest hundredth,
\* halves away from zero.
divToFixed2(x, c) ==
    IF ~IsNum(x) THEN Str("NaN")
    ELSE LET a == 100 * x.n
         IN  Fixed2(IF a >= 0 THEN (2 * a + c) \div (2 * c)
                    ELSE -((2 * (-a) + c) \div (2 * c)))

\* Date.now().toString(): thirteen digits.
TimeString(t) == "170000000000" \o ToString(t)

\* products.find(p => p.id === id): the position of the first match, 0 if none.
FindProduct(id) ==
    IF \E i \in 1..Len(products) : products[i].id = id
    THEN CHOOSE i \in 1..Len(products) :
            /\ products[i].id = id
            /\ \A j \in 1..(i - 1) : products[j].id # id
    ELSE 0

\* orders.find / orders.findIndex by id: the position of the first match.
FindOrder(id) ==
    IF \E i \in 1..Len(orders) : objs[orders[i]].id = id
    THEN CHOOSE i \in 1..Len(orders) :
            /\ objs[orders[i]].id = id
            /\ \A j \in 1..(i - 1) : objs[orders[j]].id # id
    ELSE 0

\* The splice of line 683.
RemoveAt(q, i) == [j \in 1..(Len(q) - 1) |-> IF j < i THEN q[j] ELSE q[j + 1]]

\* Line 550 without the eviction of lines 551-553.
UnshiftOnly(recent, o) == <<o>> \o recent

\* Lines 550-553: unshift, then pop when longer than the capacity.
Unshift(recent, o) ==
    LET grown == <<o>> \o recent
    IN  IF Len(grown) > RecentCapacity THEN SubSeq(grown, 1, Len(grown) - 1) ELSE grown

\* The last step accepted no order request.
NoBody == [productId |-> "", quantity |-> Undefined, totalPrice |-> Undefined]

\* POST /api/products/scrape.
ScrapeProduct(t, fieldsOk, id, name, price) ==
    /\ t \in {now, now + 1}
    /\ IF ~fieldsOk
       THEN /\ UNCHANGED <<products, metrics, now>>
            /\ reply' = [status |-> 400, kind |-> "error"]
       ELSE LET f == parseFloat(price)
                validatedProduct ==
                    [id |-> IF id # "" THEN id ELSE TimeString(t),
                     name |-> name,
                     price |-> IF Truthy(f) THEN f ELSE Num(0)]
            IN  /\ products' = Append(products, validatedProduct)
                /\ metrics' = [metrics EXCEPT !.totalProducts = Len(products')]
                /\ now' = IF id # "" THEN now ELSE t
                /\ reply' = [status |-> 201, kind |-> "product"]
    /\ placed' = NoBody
    /\ UNCHANGED <<variants, objs, orders>>
    /\ UNCHANGED <<itemVars, scraperVars>>

\* variants.find / variants.findIndex by id: the position of the first match.
FindVariant(id) ==
    IF \E i \in 1..Len(variants) : variants[i].id = id
    THEN CHOOSE i \in 1..Len(variants) :
            /\ variants[i].id = id
            /\ \A j \in 1..(i - 1) : variants[j].id # id
    ELSE 0

\* POST /api/variants without the lookup of lines 372-378.
CreateVariantUnchecked(t, productId, fieldsOk) ==
    /\ t \in {now, now + 1}
    /\ IF productId = "" \/ ~fieldsOk
       THEN /\ UNCHANGED <<variants, metrics, now>>
            /\ reply' = [status |-> 400, kind |-> "error"]
       ELSE /\ variants' = Append(variants, [id |-> t, productId |-> productId])
            /\ metrics' = [metrics EXCEPT !.totalVariants = Len(variants')]
            /\ now' = t
            /\ reply' = [status |-> 201, kind |-> "variant"]
    /\ placed' = NoBody
    /\ UNCHANGED <<products, objs, orders>>
    /\ UNCHANGED <<itemVars, scraperVars>>

\* POST /api/variants; type, value, price and stock are not kept.
CreateVariant(t, productId, fieldsOk) ==
    /\ t \in {now, now + 1}
    /\ IF productId = "" \/ ~fieldsOk
       THEN /\ UNCHANGED <<variants, metrics, now>>
            /\ reply' = [status |-> 400, kind |-> "error"]
       ELSE IF FindProduct(productId) = 0
       THEN /\ UNCHANGED <<variants, metrics, now>>
            /\ reply' = [status |-> 404, kind |-> "error"]
       ELSE /\ variants' = Append(variants, [id |-> t, productId |-> productId])
            /\ metrics' = [metrics EXCEPT !.totalVariants = Len(variants')]
            /\ now' = t
            /\ reply' = [status |-> 201, kind |-> "variant"]
    /\ placed' = NoBody
    /\ UNCHANGED <<products, objs, orders>>
    /\ UNCHANGED <<itemVars, scraperVars>>

\* PUT /api/variants/:id: sets price, stock, value and updatedAt.
UpdateVariant(id) ==
    /\ reply' = IF FindVariant(id) = 0 THEN [status |-> 404, kind |-> "error"]
                ELSE [status |-> 200, kind |-> "variant"]
    /\ placed' = NoBody
    /\ UNCHANGED <<products, variants, objs, orders, metrics, now>>
    /\ UNCHANGED <<itemVars, scraperVars>>

\* Lines 481-491 without the assignment of totalVariants.
DeleteVariantOnly(id) ==
    /\ IF FindVariant(id) = 0
       THEN /\ UNCHANGED variants
            /\ reply' = [status |-> 404, kind |-> "error"]
       ELSE /\ variants' = RemoveAt(variants, FindVariant(id))
            /\ reply' = [status |-> 200, kind |-> "variant"]
    /\ placed' = NoBody
    /\ UNCHANGED <<products, objs, orders, metrics, now>>
    /\ UNCHANGED <<itemVars, scraperVars>>

\* DELETE /api/variants/:id.
DeleteVariant(id) ==
    /\ IF FindVariant(id) = 0
       THEN /\ UNCHANGED <<variants, metrics>>
            /\ reply' = [status |-> 404, kind |-> "error"]
       ELSE /\ variants' = RemoveAt(variants, FindVariant(id))
            /\ metrics' = [metrics EXCEPT !.totalVariants = Len(variants')]
            /\ reply' = [status |-> 200, kind |-> "variant"]
    /\ placed' = NoBody
    /\ UNCHANGED <<products, objs, orders, now>>
    /\ UNCHANGED <<itemVars, scraperVars>>

\* POST /api/orders.
CreateOrder(t, productId, quantity, customerEmail, totalPrice) ==
    /\ t \in {now, now + 1}
    /\ IF productId = "" \/ ~Truthy(quantity) \/ customerEmail = ""
       THEN /\ UNCHANGED <<objs, orders, metrics, now>>
            /\ reply' = [status |-> 400, kind |-> "error"]
            /\ placed' = NoBody
       ELSE IF FindProduct(productId) = 0
       THEN /\ UNCHANGED <<objs, orders, metrics, now>>
            /\ reply' = [status |-> 404, kind |-> "error"]
            /\ placed' = NoBody
       ELSE LET product == products[FindProduct(productId)]
                order ==
                    [id |-> t,
                     productId |-> productId,
                     quantity |-> parseInt(quantity),
                     totalPrice |-> IF Truthy(totalPrice) THEN parseFloat(totalPrice)
                                    ELSE JsMul(product.price, ToNumber(quantity)),
                     status |-> "pending"]
                ref == Len(objs) + 1
            IN  /\ objs' = Append(objs, order)
                /\ orders' = Append(orders, ref)
                /\ metrics' = [metrics EXCEPT
                        !.totalOrders = Len(orders'),
                        !.totalRevenue = JsAdd(@, order.totalPrice),
                        !.recentOrders = Unshift(@, ref)]
                /\ now' = t
                /\ reply' = [status |-> 201, kind |-> "order"]
                /\ placed' = [productId |-> productId, quantity |-> quantity,
                              totalPrice |-> totalPrice]
    /\ UNCHANGED <<products, variants>>
    /\ UNCHANGED <<itemVars, scraperVars>>

\* PUT /api/orders/:id; trackingNumber and shippingAddress are not kept.
UpdateOrder(id, status) ==
    /\ IF FindOrder(id) = 0
       THEN /\ objs' = objs
            /\ reply' = [status |-> 404, kind |-> "error"]
       ELSE /\ objs' = [objs EXCEPT ![orders[FindOrder(id)]].status =
                            IF status # "" THEN status ELSE @]
            /\ reply' = [status |-> 200, kind |-> "order"]
    /\ placed' = NoBody
    /\ UNCHANGED <<products, variants, orders, metrics, now>>
    /\ UNCHANGED <<itemVars, scraperVars>>

\* DELETE /api/orders/:id without the test of lines 676-681: findIndex's -1
\* goes to splice(-1, 1), which removes the last order.
DeleteOrderUnchecked(id) ==
    /\ IF orders = <<>>
       THEN /\ UNCHANGED <<orders, metrics>>
            /\ reply' = [status |-> 404, kind |-> "error"]
       ELSE LET index == IF FindOrder(id) = 0 THEN Len(orders) ELSE FindOrder(id)
                deletedOrder == objs[orders[index]]
            IN  /\ orders' = RemoveAt(orders, index)
                /\ metrics' = [metrics EXCEPT
                        !.totalOrders = Len(orders'),
                        !.totalRevenue = JsSub(@, deletedOrder.totalPrice)]
                /\ reply' = IF FindOrder(id) = 0
                            THEN [status |-> 404, kind |-> "error"]
                            ELSE [status |-> 200, kind |-> "order"]
    /\ placed' = NoBody
    /\ UNCHANGED <<products, variants, objs, now>>
    /\ UNCHANGED <<itemVars, scraperVars>>

\* DELETE /api/orders/:id.
DeleteOrder(id) ==
    /\ IF FindOrder(id) = 0
       THEN /\ UNCHANGED <<orders, metrics>>
            /\ reply' = [status |-> 404, kind |-> "error"]
       ELSE LET index == FindOrder(id)
                deletedOrder == objs[orders[index]]
            IN  /\ orders' = RemoveAt(orders, index)
                /\ metrics' = [metrics EXCEPT
                        !.totalOrders = Len(orders'),
                        !.totalRevenue = JsSub(@, deletedOrder.totalPrice)]
                /\ reply' = [status |-> 200, kind |-> "order"]
    /\ placed' = NoBody
    /\ UNCHANGED <<products, variants, objs, now>>
    /\ UNCHANGED <<itemVars, scraperVars>>

\* Lines 710-716: orders.filter(o => o.status === st).length
CountStatus(st) == Cardinality({i \in 1..Len(orders) : objs[orders[i]].status = st})

orderStatuses ==
    [pending |-> CountStatus("pending"),
     processing |-> CountStatus("processing"),
     shipped |-> CountStatus("shipped"),
     delivered |-> CountStatus("delivered"),
     cancelled |-> CountStatus("cancelled")]

\* The position of key id in a sequence of entries, 0 if absent.
KeyAt(entries, id) ==
    IF \E i \in 1..Len(entries) : entries[i].productId = id
    THEN CHOOSE i \in 1..Len(entries) : entries[i].productId = id
    ELSE 0

RECURSIVE CountsUpTo(_)
\* Lines 719-722 after the first n orders: the keys of productOrderCounts in
\* the order they were first assigned, each with its value.  (x || 0) reads a
\* stored NaN or 0 as 0.
CountsUpTo(n) ==
    IF n = 0 THEN <<>>
    ELSE LET prior == CountsUpTo(n - 1)
             order == objs[orders[n]]
             at == KeyAt(prior, order.productId)
         IN  IF at = 0
             THEN Append(prior, [productId |-> order.productId,
                                 count |-> JsAdd(Num(0), order.quantity)])
             ELSE [prior EXCEPT ![at].count =
                      JsAdd(IF Truthy(@) THEN @ ELSE Num(0), order.quantity)]

productOrderCounts == CountsUpTo(Len(orders))

\* The property keys that are array indices (canonical decimal strings below
\* 2^32 - 1); the one-digit ones are told apart from the other keys.
IsArrayIndex(id) == \E i \in 0..9 : id = ToString(i)

RECURSIVE IndexEntries(_, _)
\* The entries of counts whose key is an array index, in ascending key order.
IndexEntries(counts, i) ==
    IF i > 9 THEN <<>>
    ELSE SelectSeq(counts, LAMBDA e : e.productId = ToString(i))
            \o IndexEntries(counts, i + 1)

\* Object.entries(productOrderCounts): array-index keys first, in ascending
\* numeric order, then the other keys in the order they were created.
ObjectEntries(counts) ==
    IndexEntries(counts, 0) \o SelectSeq(counts, LAMBDA e : ~IsArrayIndex(e.productId))

\* The comparator of line 725, ([, a], [, b]) => b - a, as sort reads it: a
\* NaN result counts as 0.
Compare(x, y) ==
    LET d == JsSub(y.count, x.count) IN IF IsNum(d) THEN d.n ELSE 0

RECURSIVE RunEnd(_, _, _)
\* The end of the run that starts entries: it goes on while each element
\* compares with its predecessor the way the second did with the first.
RunEnd(entries, idx, isDescending) ==
    IF idx > Len(entries) THEN Len(entries)
    ELSE IF isDescending = (Compare(entries[idx], entries[idx - 1]) < 0)
    THEN RunEnd(entries, idx + 1, isDescending)
    ELSE idx - 1

Reverse(q) == [i \in 1..Len(q) |-> q[Len(q) + 1 - i]]

RECURSIVE SearchSlot(_, _, _, _)
\* The binary search for pivot's slot in entries[left .. right - 1].
SearchSlot(entries, pivot, left, right) ==
    IF left >= right THEN left
    ELSE LET mid == left + ((right - left) \div 2)
         IN  IF Compare(pivot, entries[mid]) < 0
             THEN SearchSlot(entries, pivot, left, mid)
             ELSE SearchSlot(entries, pivot, mid + 1, right)

RECURSIVE InsertFrom(_, _)
\* Binary insertion of entries[start], entries[start + 1], ... into the
\* sorted front.
InsertFrom(entries, start) ==
    IF start > Len(entries) THEN entries
    ELSE LET pivot == entries[start]
             slot == SearchSlot(entries, pivot, 1, start)
         IN  InsertFrom(SubSeq(entries, 1, slot - 1) \o <<pivot>>
                            \o SubSeq(entries, slot, start - 1)
                            \o SubSeq(entries, start + 1, Len(entries)),
                        start + 1)

\* .sort(([, a], [, b]) => b - a) of line 725, as Node's engine sorts an array
\* shorter than 64: the leading run is found (and reversed when it descends
\* under the comparator), then the rest is inserted by binary insertion.  The
\* result is the stable sort whenever the comparator is consistent.
ArraySort(entries) ==
    IF Len(entries) < 2 THEN entries
    ELSE LET isDescending == Compare(entries[2], entries[1]) < 0
             run == RunEnd(entries, 3, isDescending)
             made == IF isDescending
                     THEN Reverse(SubSeq(entries, 1, run))
                             \o SubSeq(entries, run + 1, Len(entries))
                     ELSE entries
         IN  InsertFrom(made, run + 1)

\* Lines 728 and 731 with the last product of that id in place of the first.
productNameOfLast(id) ==
    LET matches == {i \in 1..Len(products) : products[i].id = id}
        at == IF matches = {} THEN 0
              ELSE CHOOSE i \in matches : \A j \in matches : j <= i
    IN  IF at # 0 /\ products[at].name # "" THEN products[at].name ELSE "Unknown"

\* Lines 728 and 731: products.find(p => p.id === productId), then
\* product?.name || 'Unknown' (a name that is missing or "" is falsy).
productName(id) ==
    LET at == FindProduct(id)
    IN  IF at # 0 /\ products[at].name # "" THEN products[at].name ELSE "Unknown"

\* Lines 726-734: the first five, each with its product's name.
topProducts ==
    LET sorted == ArraySort(ObjectEntries(productOrderCounts)) IN
    [i \in 1..(IF Len(sorted) < TopCount THEN Len(sorted) ELSE TopCount) |->
        [productId |-> sorted[i].productId,
         name |-> productName(sorted[i].productId),
         orderCount |-> sorted[i].count]]

\* Lines 746-748 without the test of totalOrders: a division by 0 gives
\* Infinity, or NaN when totalRevenue is 0 or NaN, which toFixed prints.
averageOrderValueUnguarded ==
    IF metrics.totalOrders > 0
    THEN divToFixed2(metrics.totalRevenue, metrics.totalOrders)
    ELSE IF IsNum(metrics.totalRevenue) /\ metrics.totalRevenue.n # 0
    THEN Str("Infinity")
    ELSE Str("NaN")

\* Lines 746-748: totalOrders > 0 ? (totalRevenue / totalOrders).toFixed(2) : 0
averageOrderValue ==
    IF metrics.totalOrders > 0
    THEN divToFixed2(metrics.totalRevenue, metrics.totalOrders)
    ELSE Num(0)

\* Lines 736-750.
dashboard ==
    [summary |-> [totalProducts |-> metrics.totalProducts,
                  totalVariants |-> metrics.totalVariants,
                  totalOrders |-> metrics.totalOrders,
                  totalRevenue |-> toFixed2(metrics.totalRevenue)],
     orderStatuses |-> orderStatuses,
     topProducts |-> topProducts,
     recentOrders |->
         [i \in 1..(IF Len(metrics.recentOrders) < 10 THEN Len(metrics.recentOrders)
                    ELSE 10) |-> objs[metrics.recentOrders[i]]],
     averageOrderValue |-> averageOrderValue]

\* GET /api/dashboard.
GetDashboard ==
    /\ reply' = [status |-> 200, kind |-> "dashboard", data |-> dashboard]
    /\ placed' = NoBody
    /\ UNCHANGED <<products, variants, objs, orders, metrics, now>>
    /\ UNCHANGED <<itemVars, scraperVars>>

-----------------------------------------------------------------------------
(* The scraper's navigation (src/unnamed/part_001, lines 45-59).           *)

\* The errors page.goto rejects with.
GotoErrors == {"TimeoutError", "net::ERR_FAILED"}

\* A call of navigateTo(url, retries): where it stands (pc), the loop
\* variable i, the number of page.goto calls made, the error of the last
\* attempt, and how it ended: what it returned, or the error it threw.
NotCalled == [pc |-> "idle", retries |-> 0, i |-> 0, calls |-> 0, last |-> "",
              returned |-> "", thrown |-> ""]

\* Line 46, the loop's test i < retries: the next attempt, or the end of the
\* function body, which returns undefined.
LoopTest(call) ==
    IF call.i < call.retries THEN [call EXCEPT !.pc = "goto"]
    ELSE [call EXCEPT !.pc = "returned", !.returned = "undefined"]

\* navigateTo(url, retries) is called.
NavigateTo(retries) ==
    /\ nav.pc \in {"idle", "returned", "threw"}
    /\ nav' = LoopTest([NotCalled EXCEPT !.retries = retries])
    /\ UNCHANGED <<itemVars, shopVars>>

\* Lines 48-53: page.goto settles; a success returns true, a failure of the
\* last attempt is thrown again, any other failure waits.
GotoSettles(ok, error) ==
    /\ nav.pc = "goto"
    /\ nav' = IF ok
              THEN [nav EXCEPT !.pc = "returned", !.returned = "true",
                               !.calls = @ + 1]
              ELSE IF nav.i = nav.retries - 1
              THEN [nav EXCEPT !.pc = "threw", !.thrown = error, !.last = error,
                               !.calls = @ + 1]
              ELSE [nav EXCEPT !.pc = "wait", !.last = error, !.calls = @ + 1]
    /\ UNCHANGED <<itemVars, shopVars>>

\* Line 54: waitForTimeout(1000) resolves; then i++ and the loop's test.
WaitSettles ==
    /\ nav.pc = "wait"
    /\ nav' = LoopTest([nav EXCEPT !.i = @ + 1])
    /\ UNCHANGED <<itemVars, shopVars>>

-----------------------------------------------------------------------------
(* Initial state and the specifications.                                   *)

Init ==
    /\ items = <<>>
    /\ removed = {}
    /\ notifications = <<>>
    /\ reqs = [r \in ReqIds |-> Idle]
    /\ resp = 0
    /\ ended = NoEnd
    /\ products = <<>>
    /\ variants = <<>>
    /\ objs = <<>>
    /\ orders = <<>>
    /\ metrics = [totalProducts |-> 0, totalVariants |-> 0, totalOrders |-> 0,
                  totalRevenue |-> Num(0), recentOrders |-> <<>>]
    /\ now = 0
    /\ reply = [status |-> 0, kind |-> "none"]
    /\ placed = NoBody
    /\ nav = NotCalled

RECURSIVE Stored(_)
\* The number of priceHistory entries in the store, over items 1..n.
Stored(n) == IF n = 0 THEN 0 ELSE Len(items[n].priceHistory) + Stored(n - 1)

\* The documents that handlers hold and have yet to save.
RECURSIVE Held(_)
Held(r) ==
    IF r = 0 THEN 0
    ELSE (IF reqs[r].pc = "idle" THEN 0 ELSE 1 + Len(reqs[r].todo)) + Held(r - 1)

InFlight == Held(MaxRequests)

\* A scrape that may load n documents is started only while the histories
\* and the notification collection stay within the bounds of the model.
Room(n) ==
    /\ Len(notifications) + InFlight + n <= MaxNotifications
    /\ Stored(Len(items)) + InFlight + n <= MaxHistory

\* Request slots are taken lowest first.
Free(r) == \A q \in ReqIds : q < r => reqs[q].pc # "idle"

NextItems ==
    \/ \E fieldsOk \in BOOLEAN, p \in ScrapedPrices, saveOk \in BOOLEAN :
          Len(items) < MaxItems /\ CreateItem(fieldsOk, p, saveOk)
    \/ \E id \in 1..(MaxItems + 1) : UpdateItem(id)
    \/ \E r \in ReqIds, id \in 1..(MaxItems + 1), dbOk \in BOOLEAN :
          Free(r) /\ Room(1) /\ ScrapeBegin(r, id, dbOk)
    \/ \E r \in ReqIds, dbOk \in BOOLEAN :
          Free(r) /\ Room(Len(FindAll)) /\ ScrapeAllBegin(r, dbOk)
    \/ \E r \in ReqIds, p \in ScrapedPrices : Fetched(r, p)
    \/ \E r \in ReqIds, ok \in BOOLEAN : NotificationWritten(r, ok)
    \/ \E r \in ReqIds, ok \in BOOLEAN : Saved(r, ok)
    \/ \E n \in 1..(MaxNotifications + 1), dbOk \in BOOLEAN : MarkRead(n, dbOk)

SpecItems == Init /\ [][NextItems]_vars

\* The tracker with deletions of items, over fewer prices.
DeletePrices == {Null, Num(100), Num(102)}

NextDelete ==
    \/ \E fieldsOk \in BOOLEAN, p \in DeletePrices, saveOk \in BOOLEAN :
          Len(items) < MaxItems /\ CreateItem(fieldsOk, p, saveOk)
    \/ \E id \in 1..(MaxItems + 1) : UpdateItem(id)
    \/ \E r \in ReqIds, id \in 1..(MaxItems + 1), dbOk \in BOOLEAN :
          Free(r) /\ Room(1) /\ ScrapeBegin(r, id, dbOk)
    \/ \E r \in ReqIds, dbOk \in BOOLEAN :
          Free(r) /\ Room(Len(FindAll)) /\ ScrapeAllBegin(r, dbOk)
    \/ \E r \in ReqIds, p \in DeletePrices : Fetched(r, p)
    \/ \E r \in ReqIds, ok \in BOOLEAN : NotificationWritten(r, ok)
    \/ \E r \in ReqIds, ok \in BOOLEAN : Saved(r, ok)
    \/ \E n \in 1..(MaxNotifications + 1), dbOk \in BOOLEAN : MarkRead(n, dbOk)
    \/ \E id \in 1..(MaxItems + 1), dbOk \in BOOLEAN : DeleteItem(id, dbOk)

SpecDelete == Init /\ [][NextDelete]_vars

\* The values the shop's requests carry in the model.
ProductIds == {"A"}
ProductNames == {"Lamp"}
PriceInputs == {Undefined, Num(5)}
QuantityInputs == {Undefined, Num(1), Str("abc")}
TotalPriceInputs == {Undefined, Num(0), Num(20), Str("abc")}
StatusInputs == {"", "cancelled", "refunded"}

MaxProducts == 1
MaxOrders == 2

NextShop ==
    \/ \E t \in {now, now + 1}, fieldsOk \in BOOLEAN, id \in ProductIds \cup {""},
          name \in ProductNames, price \in PriceInputs :
          Len(products) < MaxProducts /\ ScrapeProduct(t, fieldsOk, id, name, price)
    \/ \E t \in {now, now + 1}, productId \in ProductIds \cup {"", TimeString(now)},
          quantity \in QuantityInputs, customerEmail \in {"", "a@b.c"},
          totalPrice \in TotalPriceInputs :
          Len(objs) < MaxOrders
              /\ CreateOrder(t, productId, quantity, customerEmail, totalPrice)
    \/ \E id \in 0..(now + 1), status \in StatusInputs : UpdateOrder(id, status)
    \/ \E id \in 0..(now + 1) : DeleteOrder(id)
    \/ GetDashboard

SpecShop == Init /\ [][NextShop]_vars

\* Many orders of one product, all well formed, each in a tick of its own.
MaxWindowOrders == 11

NextWindow ==
    \/ Len(products) < 1 /\ ScrapeProduct(now, TRUE, "A", "Lamp", Num(5))
    \/ Len(objs) < MaxWindowOrders
          /\ CreateOrder(now + 1, "A", Num(1), "a@b.c", Undefined)
    \/ \E id \in 1..now : DeleteOrder(id)
    \/ GetDashboard

SpecWindow == Init /\ [][NextWindow]_vars

\* Orders of several products, with quantities that differ.
RankIds == <<"A", "B", "C", "D", "E", "F", "G", "H">>
RankQuantities == {Num(1), Num(5), Str("abc")}
MaxRankProducts == 3
MaxRankOrders == 3

NextRank ==
    \/ Len(products) < MaxRankProducts
          /\ ScrapeProduct(now, TRUE, RankIds[Len(products) + 1], "Lamp", Num(5))
    \/ \E i \in 1..Len(products), quantity \in RankQuantities :
          Len(objs) < MaxRankOrders
              /\ CreateOrder(now + 1, products[i].id, quantity, "a@b.c", Num(20))
    \/ GetDashboard

SpecRank == Init /\ [][NextRank]_vars

\* Orders of one product whose totals do not divide evenly, and deletions.
AverageTotals == {Num(1), Num(2), Str("abc")}
MaxAverageOrders == 3

NextAverage ==
    \/ Len(products) < 1 /\ ScrapeProduct(now, TRUE, "A", "Lamp", Num(5))
    \/ \E totalPrice \in AverageTotals :
          Len(objs) < MaxAverageOrders
              /\ CreateOrder(now + 1, "A", Num(1), "a@b.c", totalPrice)
    \/ \E id \in 1..now : DeleteOrder(id)
    \/ GetDashboard

SpecAverage == Init /\ [][NextAverage]_vars

\* Products with different names, with no name, and with an id used twice.
NameIds == {"A", "B"}
NameInputs == {"Lamp", "Desk", ""}
MaxNameProducts == 3
MaxNameOrders == 2

NextNames ==
    \/ \E id \in NameIds, name \in NameInputs :
          Len(products) < MaxNameProducts /\ ScrapeProduct(now, TRUE, id, name, Num(5))
    \/ \E productId \in NameIds \cup {"Z"} :
          Len(objs) < MaxNameOrders
              /\ CreateOrder(now + 1, productId, Num(1), "a@b.c", Undefined)
    \/ \E id \in 1..now : DeleteOrder(id)
    \/ GetDashboard

SpecNames == Init /\ [][NextNames]_vars

\* Products, variants and orders created and deleted in any order.
CatalogIds == {"A", "B"}
MaxCatalogProducts == 2
MaxCatalogVariants == 2
MaxCatalogOrders == 2

NextCatalog ==
    \/ \E fieldsOk \in BOOLEAN, id \in CatalogIds :
          Len(products) < MaxCatalogProducts
              /\ ScrapeProduct(now, fieldsOk, id, "Lamp", Num(5))
    \/ \E t \in {now, now + 1}, productId \in CatalogIds \cup {""}, fieldsOk \in BOOLEAN :
          Len(variants) < MaxCatalogVariants /\ now < MaxCatalogVariants + MaxCatalogOrders
              /\ CreateVariant(t, productId, fieldsOk)
    \/ \E id \in 0..now : UpdateVariant(id)
    \/ \E id \in 0..now : DeleteVariant(id)
    \/ \E t \in {now, now + 1}, productId \in CatalogIds, quantity \in {Undefined, Num(1)} :
          Len(objs) < MaxCatalogOrders
              /\ CreateOrder(t, productId, quantity, "a@b.c", Undefined)
    \/ \E id \in 0..now : DeleteOrder(id)
    \/ GetDashboard

SpecCatalog == Init /\ [][NextCatalog]_vars

\* Calls of navigateTo with every count of retries up to MaxRetries.
MaxRetries == 6

NextNavigate ==
    \/ \E retries \in 0..MaxRetries : NavigateTo(retries)
    \/ \E ok \in BOOLEAN, error \in GotoErrors : GotoSettles(ok, error)
    \/ WaitSettles

SpecNavigate == Init /\ [][NextNavigate]_vars

\* Products whose ids include short decimal strings, created in the order of
\* TieIds, and orders whose summed quantities can tie.
TieIds == <<"2", "1", "A", "B", "C", "D">>
TieQuantities == {Num(1)}
MaxTieProducts == 6
MaxTieOrders == 6

NextTie ==
    \/ Len(products) < MaxTieProducts
          /\ ScrapeProduct(now, TRUE, TieIds[Len(products) + 1], "Lamp", Num(5))
    \/ \E i \in 1..Len(products), quantity \in TieQuantities :
          Len(objs) < MaxTieOrders
              /\ CreateOrder(now + 1, products[i].id, quantity, "a@b.c", Num(20))
    \/ GetDashboard

SpecTie == Init /\ [][NextTie]_vars

-----------------------------------------------------------------------------
(* Claims about the price tracker.                                         *)

Qualifies(prev, cur) == Abs(cur - prev) * 100 > prev

\* The requests whose checkPriceChanges has returned for the current document.
Checked == {r \in ReqIds : reqs[r].pc = "save"}

\* C1: for a stored price > 0 and any numeric observed price, zero included,
\* a scrape creates a notification if and only if the change is strictly more
\* than 1% of the stored price, and its type is price_drop exactly when the
\* observed price is lower.
C1_NotificationIffOverOnePercent ==
    \A r \in Checked :
        LET q == reqs[r] IN
        (IsNum(q.prev) /\ q.prev.n > 0 /\ IsNum(q.obs)) =>
            /\ q.fired <=> Qualifies(q.prev.n, q.obs.n)
            /\ q.fired => (q.note.type = "price_drop" <=> q.obs.n < q.prev.n)
            /\ q.fired => q.note.type \in {"price_drop", "price_increase"}

\* C1, a scrape that observed price 0 for an item priced above 0.
C1_ObservedZero ==
    \E r \in Checked :
        IsNum(reqs[r].prev) /\ reqs[r].prev.n > 0 /\ reqs[r].obs = Num(0)

\* C2: while the stored price is 0 no scrape creates a notification, and no
\* percentage is computed by dividing by zero.
C2_ZeroStoredPriceNeverNotifies ==
    /\ \A r \in ReqIds :
          /\ ~reqs[r].div0
          /\ reqs[r].pc \in {"notify", "save"} /\ reqs[r].prev = Num(0) =>
                ~reqs[r].fired /\ reqs[r].note = NoNote /\ reqs[r].pc = "save"
    /\ \A i \in 1..Len(notifications) : notifications[i].threshold # Num(0)

\* C2, a scrape that observed a price for an item whose stored price is 0.
C2_ScrapedAgainstZero ==
    \E r \in Checked : reqs[r].prev = Num(0) /\ Truthy(reqs[r].obs)

\* The step in which request r's item.save() succeeds.
SaveSucceeds(r) == reqs[r].pc = "save" /\ reqs'[r] # reqs[r] /\ resp' # 500

\* C3: every scrape that observes a non-null price, zero included, leaves the
\* item's priceHistory equal to what it was with one entry of that price
\* appended, and item.price equal to that price.
C3_ObservationAppended ==
    [][\A r \in ReqIds :
          (SaveSucceeds(r) /\ IsNum(reqs[r].obs)) =>
              LET id == reqs[r].doc.id IN
              /\ items'[id].priceHistory = Append(items[id].priceHistory, reqs[r].obs)
              /\ items'[id].price = reqs[r].obs]_vars

CreateFails(r) ==
    reqs[r].pc = "notify" /\ reqs'[r] # reqs[r] /\ notifications' = notifications

\* C13: when Notification.create fails in a scrape that observed a
\* qualifying change, the caller is answered with an error, and the
\* observation is dropped as a unit: the request ends there, so that neither
\* its notification nor its history entry and price are stored.
C13_NotificationFailureSurfaced ==
    [][\A r \in ReqIds :
          CreateFails(r) =>
              /\ resp' = 500
              /\ reqs'[r].pc = "idle"
              /\ items' = items
              /\ ended'.cause = "notification" /\ ~ended'.fired /\ ~ended'.saved]_vars

\* C13, a scrape that ended because its notification could not be stored.
C13_NotificationFailed ==
    /\ ended.cause = "notification"
    /\ resp = 500
    /\ Qualifies(ended.prev.n, ended.obs.n)
    /\ items[ended.id].price = ended.prev

\* The last step ended a scrape request whose observation qualified for a
\* notification.
EndedQualifying ==
    /\ ended.id # 0
    /\ Truthy(ended.prev) /\ Truthy(ended.obs)
    /\ Qualifies(ended.prev.n, ended.obs.n)

\* C14: whenever a scrape request has ended, with success or with an error,
\* the notification of a qualifying observation is stored if and only if the
\* history entry and price of that observation are stored.
C14_ObservationAndNotificationAsUnit ==
    EndedQualifying => (ended.fired <=> ended.saved)

\* Request r holds a document it has read and not yet saved.
Holding(r) == reqs[r].pc # "idle"

\* C15: requests run one after the other: no two scrape requests hold the
\* same item between their read and their save, and so no two of them have
\* compared an observation against the same read of the stored price.
C15_RequestsRunToCompletion ==
    \A r1, r2 \in ReqIds :
        (r1 # r2 /\ Holding(r1) /\ Holding(r2)) =>
            /\ reqs[r1].doc.id # reqs[r2].doc.id
            /\ \A i \in 1..Len(reqs[r2].todo) : reqs[r1].doc.id # reqs[r2].todo[i].id

\* The fields of a notification other than the read flag.
Content(note) == [note EXCEPT !.isRead = FALSE]

\* C16: a notification enters the collection only as the one that
\* checkPriceChanges built for a request's observation, and no step changes
\* the itemId, type, message, threshold or createdAt of a notification that
\* exists, nor removes one: only isRead changes.
C16_NotificationsImmutableButRead ==
    [][/\ Len(notifications') >= Len(notifications)
       /\ \A i \in 1..Len(notifications) :
             Content(notifications'[i]) = Content(notifications[i])
       /\ Len(notifications') > Len(notifications) =>
             /\ Len(notifications') = Len(notifications) + 1
             /\ \E r \in ReqIds :
                   LET c == checkPriceChanges(reqs[r].doc, reqs[r].obs)
                       new == notifications'[Len(notifications')]
                   IN  /\ reqs[r].pc = "notify"
                       /\ c.create
                       /\ new = [c.note EXCEPT !.createdAt = Len(notifications')]]_vars

\* C16, a notification marked as read with a later one stored after it.
C16_ReadAndLaterCreated ==
    /\ Len(notifications) = 2
    /\ notifications[1].isRead
    /\ ~notifications[2].isRead
    /\ resp = 200

\* C17: the notification of an observation names, as old price and as
\* threshold, the price the store holds for the item until this
\* observation's save overwrites it, and as new price the observed one.
C17_NotificationCarriesOldAndNewPrice ==
    [][\A r \in ReqIds :
          (SaveSucceeds(r) /\ reqs[r].fired) =>
              LET id == reqs[r].doc.id
                  note == reqs[r].note
              IN  /\ note.from = items[id].price
                  /\ note.threshold = items[id].price
                  /\ note.to = reqs[r].obs
                  /\ note.to = items'[id].price]_vars

\* null, undefined or NaN.
Absent(v) == v.k \in {"null", "undef", "nan"}

\* C18: a scrape in which the stored price or the observed price is absent
\* asks for no notification and creates none, and the absence is no error:
\* the request goes on to item.save() and, unless the store rejects that
\* save, ends with a success response.
C18_AbsentPriceIsNoOp ==
    /\ \A r \in ReqIds :
          (reqs[r].pc \in {"notify", "save"}
              /\ (Absent(reqs[r].prev) \/ Absent(reqs[r].obs))) =>
                  reqs[r].pc = "save" /\ ~reqs[r].fired /\ reqs[r].note = NoNote
    /\ (ended.id # 0 /\ (Absent(ended.prev) \/ Absent(ended.obs))) =>
          /\ ~ended.fired /\ ended.note = NoNote
          /\ ended.cause \in {"ok", "save"}
          /\ ended.cause = "ok" => resp = 200

\* C18, a scrape that observed a price for an item stored without one and
\* ended with a success response.
C18_ScrapedWithoutStoredPrice ==
    /\ ended.cause = "ok"
    /\ Absent(ended.prev)
    /\ Truthy(ended.obs)
    /\ resp = 200
    /\ items[ended.id].price = ended.obs


\* C23: deleting an item removes that item and nothing else: every
\* notification, those of the deleted item included, stays in the store
\* unchanged, and so does every other item.
C23_DeleteItemKeepsNotifications ==
    [][removed' # removed =>
          /\ notifications' = notifications
          /\ items' = items
          /\ \E id \in Present : removed' = removed \cup {id}]_vars

\* C23, a deleted item with a notification of it still in the store.
C23_NotificationOfDeletedItem ==
    /\ resp = 200
    /\ \E id \in removed : \E n \in 1..Len(notifications) : notifications[n].itemId = id

\* C25: scrapeWebsite hands the handler a record whatever happens, the
\* sentinel with price null on a failure, so the wait for it never ends a
\* request; a request that received the sentinel creates no notification,
\* and its save leaves the item's price and priceHistory as they are, writes
\* lastScraped and is followed by the success response (scrape-all: by the
\* next item).
C25_SentinelLeavesPriceUnchanged ==
    [][\A r \in ReqIds :
          /\ (reqs[r].pc = "fetch" /\ reqs'[r] # reqs[r]) =>
                /\ reqs'[r].pc \in {"notify", "save"}
                /\ resp' = 0
                /\ reqs'[r].obs = Null => reqs'[r].pc = "save" /\ reqs'[r].note = NoNote
          /\ (SaveSucceeds(r) /\ reqs[r].obs = Null) =>
                LET id == reqs[r].doc.id IN
                /\ ~reqs[r].fired
                /\ notifications' = notifications
                /\ items'[id].price = items[id].price
                /\ items'[id].priceHistory = items[id].priceHistory
                /\ items'[id].lastScraped = "scrape"
                /\ resp' = IF reqs[r].todo = <<>> THEN 200 ELSE 0]_vars

\* C25, a request that received the sentinel and ended with success, for an
\* item that has a price.
C25_EndedAfterSentinel ==
    /\ ended.cause = "ok"
    /\ ended.id # 0
    /\ ended.obs = Null
    /\ IsNum(ended.prev)
    /\ resp = 200
    /\ items[ended.id].price = ended.prev
    /\ items[ended.id].lastScraped = "scrape"
    /\ Len(items[ended.id].priceHistory) = 1

\* The ids of a sequence of documents.
Ids(docs) == [i \in 1..Len(docs) |-> docs[i].id]

\* C30: a scrape-all request works through the items its query returned one
\* at a time and in collection order (the item in hand comes after the ones
\* with a result and before the ones to do), and when it answers with
\* success its results hold exactly one entry per item of the query, in
\* that order.
C30_ScrapeAllInOrder ==
    /\ \A r \in ReqIds :
          reqs[r].kind = "scrapeAll" =>
              /\ reqs[r].found = reqs[r].results \o <<reqs[r].doc.id>> \o Ids(reqs[r].todo)
              /\ \A i, j \in 1..Len(reqs[r].found) :
                    i < j => reqs[r].found[i] < reqs[r].found[j]
    /\ (ended.kind = "scrapeAll" /\ ended.cause = "ok") =>
          /\ resp = 200
          /\ ended.results = ended.found
          /\ \A i \in 1..Len(ended.found) :
                items[ended.found[i]].lastScraped = "scrape"

\* C30, a scrape-all request that answered with success for two items.
C30_TwoItemsScraped ==
    /\ ended.kind = "scrapeAll"
    /\ ended.cause = "ok"
    /\ Len(ended.results) = 2
    /\ resp = 200

-----------------------------------------------------------------------------
(* Claims about the shop API.                                              *)

\* The order objects of the orders collection, oldest first.
Current == [i \in 1..Len(orders) |-> objs[orders[i]]]

RECURSIVE SumTotalPrice(_)
\* The sum of totalPrice over a sequence of orders, as + computes it.
SumTotalPrice(q) ==
    IF q = <<>> THEN Num(0)
    ELSE JsAdd(SumTotalPrice(SubSeq(q, 1, Len(q) - 1)), q[Len(q)].totalPrice)

Answered == reply.kind = "dashboard"

\* C5: the five counts of the dashboard's orderStatuses sum to
\* summary.totalOrders.
C5_StatusCountsSumToTotalOrders ==
    Answered =>
        LET c == reply.data.orderStatuses IN
        c.pending + c.processing + c.shipped + c.delivered + c.cancelled
            = reply.data.summary.totalOrders

\* C6: totalRevenue, as kept in dashboardMetrics and as the dashboard reports
\* it, is the sum of totalPrice over the orders in the collection, and 0 when
\* there are none.
C6_RevenueIsSumOfTotalPrices ==
    /\ metrics.totalRevenue = SumTotalPrice(Current)
    /\ orders = <<>> => metrics.totalRevenue = Num(0)
    /\ Answered => reply.data.summary.totalRevenue = toFixed2(SumTotalPrice(Current))

\* C7: totalRevenue includes no deleted and no cancelled order: with every
\* totalPrice ever stored a number, it is the sum over the orders that are in
\* the collection and not cancelled.
C7_RevenueExcludesCancelled ==
    (\A i \in 1..Len(objs) : IsNum(objs[i].totalPrice)) =>
        metrics.totalRevenue =
            SumTotalPrice(SelectSeq(Current, LAMBDA o : o.status # "cancelled"))

\* C8: the recent-orders buffer holds at most 10 entries, ordered from the
\* most recently created order to the least recently created one (order
\* objects are numbered in the order they were created).
C8_RecentOrdersBoundedNewestFirst ==
    LET recent == metrics.recentOrders IN
    /\ Len(recent) <= 10
    /\ \A i, j \in 1..Len(recent) : i < j => recent[i] > recent[j]

\* C8, a full buffer that has evicted an order, with a deleted order in it.
C8_BufferHasEvicted ==
    /\ Len(metrics.recentOrders) = 10
    /\ Len(objs) > 10
    /\ \E i \in 1..10 :
          \A j \in 1..Len(orders) : orders[j] # metrics.recentOrders[i]

\* C9: the dashboard's recentOrders is exactly the min(10, n) most recently
\* created of the n orders in the collection, newest first.
C9_RecentOrdersAreCurrentOrders ==
    Answered =>
        LET n == Len(orders)
            m == IF n < 10 THEN n ELSE 10
        IN  reply.data.recentOrders = [i \in 1..m |-> Current[n + 1 - i]]

\* The orders of product id all have a number as quantity.
WellFormed(id) ==
    \A i \in 1..Len(orders) : Current[i].productId = id => IsNum(Current[i].quantity)

RECURSIVE SumQuantity(_, _)
\* The sum of quantity over the first n orders that are of product id.
SumQuantity(id, n) ==
    IF n = 0 THEN 0
    ELSE SumQuantity(id, n - 1)
            + (IF Current[n].productId = id THEN Current[n].quantity.n ELSE 0)

\* C10: topProducts has at most 5 entries, each with the summed quantity of
\* its product's orders, in non-increasing order of that sum, and no product
\* left out has a larger sum than one included.  (Read for the products whose
\* orders all carry a number as quantity.)
C10_TopProductsRanked ==
    Answered =>
        LET top == reply.data.topProducts
            ids == {Current[i].productId : i \in 1..Len(orders)}
            in == {top[i].productId : i \in 1..Len(top)}
        IN  /\ Len(top) <= 5
            /\ \A i \in 1..Len(top) :
                  WellFormed(top[i].productId) =>
                      top[i].orderCount = Num(SumQuantity(top[i].productId, Len(orders)))
            /\ \A i, j \in 1..Len(top) :
                  (i < j /\ WellFormed(top[i].productId) /\ WellFormed(top[j].productId))
                      => top[i].orderCount.n >= top[j].orderCount.n
            /\ \A id \in ids \ in : \A i \in 1..Len(top) :
                  (WellFormed(id) /\ WellFormed(top[i].productId)) =>
                      SumQuantity(id, Len(orders)) <= top[i].orderCount.n

\* The position in the orders collection of the first order of product id.
FirstOrder(id) ==
    CHOOSE i \in 1..Len(orders) :
        /\ Current[i].productId = id
        /\ \A j \in 1..(i - 1) : Current[j].productId # id

\* C11: in topProducts two products with equal summed quantity appear in the
\* order of their first orders in the collection, whatever the form of their
\* ids, and a product cut at the limit of 5 that ties with a listed one was
\* first ordered after it.
C11_TiesInFirstEncounteredOrder ==
    Answered =>
        LET top == reply.data.topProducts
            counts == productOrderCounts
            in == {top[i].productId : i \in 1..Len(top)}
        IN  /\ \A i, j \in 1..Len(top) :
                  (i < j /\ top[i].orderCount = top[j].orderCount) =>
                      FirstOrder(top[i].productId) < FirstOrder(top[j].productId)
            /\ \A k \in 1..Len(counts) : \A i \in 1..Len(top) :
                  (counts[k].productId \notin in /\ counts[k].count = top[i].orderCount)
                      => FirstOrder(top[i].productId) < FirstOrder(counts[k].productId)

\* C12: the dashboard reports averageOrderValue 0 whenever the orders
\* collection is empty, so nothing is divided by zero; with n > 0 orders it
\* reports totalRevenue / n to the nearest hundredth (what toFixed prints of
\* a totalRevenue that is NaN is "NaN").
C12_AverageOrderValue ==
    Answered =>
        LET average == reply.data.averageOrderValue
            n == Len(orders)
            revenue == metrics.totalRevenue
        IN  /\ n = 0 => average = Num(0)
            /\ (n > 0 /\ IsNum(revenue)) =>
                  /\ average.k = "dec2"
                  /\ 2 * Abs(average.n * n - 100 * revenue.n) <= n
            /\ (n > 0 /\ ~IsNum(revenue)) => average = Str("NaN")

\* C12, a dashboard answered after every order was deleted, with revenue
\* left in the metrics.
C12_EmptyAfterDeletes ==
    /\ Answered
    /\ orders = <<>>
    /\ Len(objs) > 0
    /\ reply.data.summary.totalOrders = 0

\* C19: every order in the collection has a status among pending,
\* processing, shipped, delivered and cancelled.
C19_StatusInClosedSet ==
    \A i \in 1..Len(orders) : Current[i].status \in Statuses

\* C20: a created order's totalPrice is the totalPrice the request supplied
\* whenever it supplied a number, 0 included, and product.price * quantity
\* when it supplied none.
C20_TotalPriceAsSupplied ==
    placed # NoBody =>
        LET order == objs[Len(objs)]
            product == products[FindProduct(placed.productId)]
        IN  /\ IsNum(placed.totalPrice) => order.totalPrice = placed.totalPrice
            /\ placed.totalPrice = Undefined =>
                  order.totalPrice = JsMul(product.price, ToNumber(placed.quantity))

\* C21: every order in the collection has a quantity that is a positive
\* integer.
C21_QuantityPositiveInteger ==
    \A i \in 1..Len(orders) : IsNum(Current[i].quantity) /\ Current[i].quantity.n > 0

C24_SummaryCountsCollections ==
    /\ metrics.totalProducts = Len(products)
    /\ metrics.totalVariants = Len(variants)
    /\ metrics.totalOrders = Len(orders)
    /\ Answered =>
          /\ reply.data.summary.totalProducts = Len(products)
          /\ reply.data.summary.totalVariants = Len(variants)
          /\ reply.data.summary.totalOrders = Len(orders)

\* C24, the deletion of one of two variants, after an order was deleted.
C24_VariantDeleted ==
    /\ reply = [status |-> 200, kind |-> "variant"]
    /\ Len(variants) = 1
    /\ metrics.totalVariants = 1
    /\ variants[1].id > 1
    /\ Len(objs) > Len(orders)
    /\ Len(products) = 2

\* C27: every order's productId and every variant's productId is the id of
\* a product in the products collection.
C27_ProductReferencesResolve ==
    /\ \A i \in 1..Len(orders) : FindProduct(Current[i].productId) # 0
    /\ \A i \in 1..Len(variants) : FindProduct(variants[i].productId) # 0

\* C27, an order and a variant of two different products, and a request
\* answered 404 with only one of the two products created so far.
C27_ReferencesToTwoProducts ==
    /\ Len(orders) >= 1
    /\ Len(variants) >= 1
    /\ Current[1].productId # variants[1].productId
    /\ Len(products) = 2
    /\ reply.status = 404

\* C28: no two orders in the collection share an id, also when they were
\* created within one clock tick, so that a request by id finds the order
\* that id was returned for.
C28_OrderIdsUnique ==
    \A i, j \in 1..Len(orders) : i # j => Current[i].id # Current[j].id

\* C29: a request answered 400 or 404 leaves the orders (the collection and
\* every order object), totalOrders, totalRevenue and recentOrders exactly
\* as they were.
C29_RejectedRequestChangesNothing ==
    [][reply'.status \in {400, 404} =>
          /\ orders' = orders
          /\ objs' = objs
          /\ metrics'.totalOrders = metrics.totalOrders
          /\ metrics'.totalRevenue = metrics.totalRevenue
          /\ metrics'.recentOrders = metrics.recentOrders]_vars

\* C29, a PUT or DELETE for an unknown id answered 404 with two orders in
\* the collection.
C29_UnknownIdRejected ==
    /\ reply = [status |-> 404, kind |-> "error"]
    /\ Len(orders) = 2
    /\ metrics.totalOrders = 2
    /\ Len(metrics.recentOrders) = 2

-----------------------------------------------------------------------------
(* Claims about the scraper.                                               *)

\* C26: a call navigateTo(url, retries) with retries >= 0 calls page.goto at
\* most retries times, and ends in one of two ways: it returns true, at the
\* first attempt that succeeds, or it throws the error of the last attempt,
\* after retries attempts that all failed.
C26_FixedCountRetryLoop ==
    /\ nav.calls <= nav.retries
    /\ nav.pc = "returned" => nav.returned = "true"
    /\ nav.pc = "threw" => nav.calls = nav.retries /\ nav.thrown = nav.last

=============================================================================
